---- MODULE Spec2Model ----
(***************************************************************************)
(* The DJI Pilot 2 login page of the droneserver repository and the vendor *)
(* bridge it drives.  The repository holds several versions of the page;   *)
(* one behaviour of the model runs one of them (variable page).            *)
(*                                                                         *)
(* Every await of the page is a step of its own: an action named           *)
(* XReturn is "bridge call X returns and the code runs up to its next      *)
(* await", so the next bridge call is issued by that same action.          *)
(***************************************************************************)
EXTENDS Integers, Sequences, FiniteSets, TLC

\* ------------------------------------------------------------- bounds
MaxLogins == 2
MaxRuns == 1
MaxFailures == 6
MaxDrops == 1
MaxMessages == 2
\* The timestamps of the samples inserted range over 1..MaxTimestamp.
MaxTimestamp == 3
\* scripts/init-users-table.ts is run at most MaxInits times.
MaxInits == 2

\* ------------------------------------------------------ page versions
PageTsx == "src/pages/dji-login.tsx"
PageP003 == "part_003"
PageP000a == "part_000:1-546"
PageP000b == "part_000:547-886"
PageP001 == "part_001"
PageP002 == "part_002"
Pages == {PageTsx, PageP003, PageP000a, PageP000b}

\* All versions, with the two whose setup hands other callbacks to the bridge.
SlotPages == Pages \cup {PageP001, PageP002}

\* The callback names a version's connection parameters hand to the bridge.
callbackNames(p) ==
    IF p \in {PageP000b, PageP002} THEN {"onMqttStatusChange", "onTelemetryChange"}
    ELSE {"connectCallback", "onTelemetryChange"}

\* The versions whose setup installs window.connectCallback and loads the
\* 'thing' module with connectCallback: 'connectCallback'.
CallbackPages == {PageTsx, PageP003, PageP000a}

\* ----------------------------------------------------- status payloads
\* What the bridge hands to the connect callback: a boolean, a string
\* ('true', 'false', the JSON text of an object) or an object.  Which of
\* these the vendor bridge uses is not known to the page (statusFormat).
NoObj == [hasCode |-> FALSE, code |-> 0, hasConnected |-> FALSE, connected |-> FALSE,
          hasState |-> FALSE, connectState |-> 0]
StatusObj(c, s) == [hasCode |-> TRUE, code |-> c, hasConnected |-> FALSE, connected |-> FALSE,
                    hasState |-> TRUE, connectState |-> s]
ErrorObj(c) == [hasCode |-> TRUE, code |-> c, hasConnected |-> FALSE, connected |-> FALSE,
                hasState |-> FALSE, connectState |-> 0]
BoolStatus(b) == [t |-> "boolean", b |-> b, text |-> "", o |-> NoObj]
TextStatus(x) == [t |-> "string", b |-> FALSE, text |-> x, o |-> NoObj]
JsonStatus(o) == [t |-> "string", b |-> FALSE, text |-> "json", o |-> o]
ObjectStatus(o) == [t |-> "object", b |-> FALSE, text |-> "", o |-> o]
StatusFormats == {"boolean", "text", "json", "object"}
formatOf(status) ==
    CASE status.t = "boolean" -> "boolean"
      [] status.t = "object" -> "object"
      [] status.text = "json" -> "json"
      [] OTHER -> "text"
ConnectedPayloads == {BoolStatus(TRUE), TextStatus("true"), JsonStatus(StatusObj(0, 1)),
                      ObjectStatus(StatusObj(0, 1))}
LostPayloads == {BoolStatus(FALSE), TextStatus("false"), TextStatus("offline"),
                 JsonStatus(StatusObj(0, 0)),
                 JsonStatus(ErrorObj(1)), ObjectStatus(StatusObj(0, 0)),
                 ObjectStatus(ErrorObj(1))}

\* part_003's connectCallback: the tests of an object status.
objectConnected(o) ==
    \/ o.hasCode /\ o.code = 0
    \/ o.hasConnected /\ o.connected = TRUE
    \/ o.hasState /\ o.connectState = 1

\* part_003's connectCallback: isConnected.
isConnected(status) ==
    CASE status.t = "boolean" -> status.b
      [] status.t = "string" ->
            IF status.text = "true" THEN TRUE
            ELSE IF status.text = "json" THEN objectConnected(status.o)
            ELSE FALSE
      [] OTHER -> objectConnected(status.o)

\* part_000:547-886's onMqttStatusChange: the branch a status string takes.
\* JSON.parse of a boolean, of 'true' or of 'false' yields a boolean, whose
\* code is undefined; JSON.parse of an object throws.
mqttStatusBranch(status) ==
    IF status.t = "string" /\ status.text = "json"
    THEN IF status.o.hasCode /\ status.o.code = 0
         THEN IF status.o.hasState /\ status.o.connectState = 1 THEN "connected"
              ELSE IF status.o.hasState /\ status.o.connectState = 0 THEN "disconnected"
              ELSE "ignored"
         ELSE "error"
    ELSE IF status.t = "boolean" \/ status.text \in {"true", "false"} THEN "error"
    ELSE "parsefail"

\* ---------------------------------------------------- inbound messages
\* The text the bridge hands to the message callback.  json: JSON.parse
\* accepts it; depth: how many times the JSON text was encoded again as a JSON
\* string; shape, method, tid, ts, sn, data: the value the innermost text
\* denotes (sn is data.sub_devices[0].sn, ts the report's timestamp).
Message(json, depth, shape, method, tid, ts, sn, data) ==
    [json |-> json, depth |-> depth, shape |-> shape, method |-> method, tid |-> tid,
     ts |-> ts, sn |-> sn, data |-> data]
GarbageText == Message(FALSE, 0, "text", "", 0, 0, "", "")
NullText == Message(TRUE, 0, "null", "", 0, 0, "", "")
ScalarText == Message(TRUE, 0, "number", "", 0, 0, "", "")
ObjectText(method, tid, ts, sn, data) == Message(TRUE, 0, "object", method, tid, ts, sn, data)
TopoText(sn) == ObjectText("update_topo", 0, 0, sn, "topology")
OsdText(ts) == ObjectText("", 0, ts, "", "osd")
ReplyText(method, tid) == ObjectText(method, tid, 0, "", "reply")
\* JSON.stringify of a JSON text: a JSON string that contains JSON.
Quoted(m) == [m EXCEPT !.depth = @ + 1]

\* JavaScript values: a string (of is its content), null, a number or an
\* object (of is the text that denotes it).
StringValue(m) == [kind |-> "string", of |-> m]
Nothing == [kind |-> "undefined", of |-> GarbageText]

\* JSON.parse(text): throws, or yields the value one level of encoding down.
JSONparse(m) ==
    [threw |-> ~m.json,
     v |-> IF ~m.json THEN Nothing
           ELSE IF m.depth > 0 THEN StringValue([m EXCEPT !.depth = @ - 1])
           ELSE [kind |-> m.shape, of |-> m]]

\* typeof null is 'object'.
typeof(v) == IF v.kind \in {"null", "object"} THEN "object" ELSE v.kind

\* v.method: reading a property of null throws a TypeError; of a string or a
\* number it is undefined.
methodOf(v) == IF v.kind = "object" THEN v.of.method ELSE ""

\* One entry of debugLogs; at stands for the time stamp addLog puts in front.
LogEntry(at, kind, sn, v) == [at |-> at, kind |-> kind, sn |-> sn, v |-> v]

\* The test with the method name misspelt.
misspeltTopologyTest(v) == typeof(v) = "object" /\ methodOf(v) = "update_topology"

\* dji-login.tsx: the test that picks the brief line.
isTopologyUpdate(v) == typeof(v) = "object" /\ methodOf(v) = "update_topo"

\* dji-login.tsx: the body of the message callback's outer try.
callbackBody(message, at) ==
    LET parsed == JSONparse(message)
        parsedMessage == IF parsed.threw THEN StringValue(message) ELSE parsed.v
    IN  IF typeof(parsedMessage) = "object" /\ parsedMessage.kind = "null"
        THEN [raised |-> TRUE, logs |-> << >>]
        ELSE IF isTopologyUpdate(parsedMessage)
        THEN [raised |-> FALSE,
              logs |-> << LogEntry(at, "topology",
                                   IF parsedMessage.of.sn # "" THEN parsedMessage.of.sn
                                   ELSE "unknown", Nothing) >>]
        ELSE [raised |-> FALSE, logs |-> << LogEntry(at, "message", "", parsedMessage) >>]

\* The message callback without its outer try/catch.
uncaughtCallback(message, at) == callbackBody(message, at)

\* dji-login.tsx and part_000:1-546: window.onTelemetryChange as the setup
\* assigns it; the outer catch logs what the body threw.
onTelemetryChangeSetup(message, at) ==
    LET r == callbackBody(message, at)
    IN  IF r.raised
        THEN [raised |-> FALSE, logs |-> << LogEntry(at, "error", "", Nothing) >>]
        ELSE r

\* part_003: window.onTelemetryChange as the setup assigns it.
onTelemetryChangeP003(message, at) ==
    LET parsed == JSONparse(message)
    IN  [raised |-> FALSE,
         logs |-> << LogEntry(at, "raw", "", StringValue(message)),
                     IF parsed.threw THEN LogEntry(at, "noparse", "", Nothing)
                     ELSE LogEntry(at, "parsed", "", parsed.v) >>]

\* window.onTelemetryChange as the mount effect assigns it; part_000:547-886
\* has no other.
onTelemetryChangeMount(p, message, at) ==
    IF p = PageP000b
    THEN onTelemetryChangeP003(message, at)
    ELSE [raised |-> FALSE, logs |-> << LogEntry(at, "raw", "", StringValue(message)) >>]

\* ------------------------------------------------------------- topics
subscribeTopics(p) ==
    CASE p = PageTsx ->
            << "sys/product/+/status", "thing/product/+/state", "thing/product/+/property",
               "thing/product/+/osd", "thing/product/+/event", "thing/product/+/properties",
               "thing/product/+/telemetry/#", "thing/product/+/status",
               "thing/product/+/cmd_reply" >>
      [] p = PageP003 ->
            << "sys/product/+/status", "thing/product/+/state", "thing/product/+/property" >>
      [] p = PageP000a ->
            << "#", "sys/product/+/cmd_reply", "thing/product/+/osd",
               "thing/product/+/property" >>
      [] p = PageP002 -> << "#" >>
      [] OTHER -> << >>

\* ------------------------------------------------------------ serials
\* The serials written into dji-login.tsx and part_000 ('From your logs').
aircraftSn == "1581F5BKB23C900F018N"
gatewaySn == "4LFCLC7006N944"

\* What platformGetAircraftSN and platformGetRemoteControllerSN answer: the
\* device those serials were copied from, another device, or a remote
\* controller with no aircraft linked.
KnownDevice == [aircraft |-> aircraftSn, rc |-> gatewaySn]
Devices ==
    {KnownDevice,
     [aircraft |-> "1581F5BKB23C900F777A", rc |-> "4LFCLC7006N777"],
     [aircraft |-> "", rc |-> "4LFCLC7006N777"]}

\* ---------------------------------------------------------- variables
VARIABLES
    page,              \* the version of the page this behaviour runs
    bridgePresent,     \* window.djiBridge is defined
    statusFormat,      \* the form in which the bridge reports a connection status
    device,            \* the serials the bridge's device queries answer with
    hl,                \* where handleLogin / setupDjiConnection is suspended
    logins,            \* login submissions so far
    isLoading, error, isPilotLoggedIn,    \* React state of the page
    configResponse,    \* the status /api/dji/config answered this login with, or 0
    djiConfig,         \* the configuration the running setup was given, or "none"
    connectCallback,   \* window.connectCallback: "none" or "setup"
    onTelemetryChange, \* window.onTelemetryChange: "mount" or "setup"
    link,              \* the bridge's broker connection
    loads,             \* module loads with connection parameters, in order
    failures,          \* failed or disconnected statuses reported so far
    subs,              \* patterns subscribed on the current connection
    requested,         \* subscribe requests handed to the bridge for the current
                       \* connection: pattern :> 1 (once) or 2 (more than once)
    lostSubs,          \* patterns that were subscribed when a connection was lost
    calls,             \* publish and subscribe calls handed to the bridge
    runs,              \* telemetry/publish runs scheduled by connect callbacks
    subTimers,         \* subscribe timers and loops: the next topic of each
    reconnectTimers,   \* pending reconnect timers (part_003)
    testTimers,        \* pending test-publish timers (part_000:1-546)
    uuid,              \* UUIDs generated so far
    results,           \* debugLogs: the results the runs logged for their commands
    inbound,           \* the messages the bridge handed to window.onTelemetryChange
    messageLogs,       \* debugLogs: the entries the message callbacks added
    telemetryData,     \* React state telemetryData
    telemetry,         \* rows of the SQLite table telemetry
    escaped,           \* an exception left a message callback
    expired,           \* commands whose reply did not come in time
    mounted,           \* the page component is mounted
    onMqttStatusChangeSlot,  \* window.onMqttStatusChange: "none", "mount" or "setup"
    onTelemetryUpdate, \* window.onTelemetryUpdate: "none" or "setup" (part_001)
    handedUndefined,   \* callback names handed to the bridge while no window function
                       \* of that name was defined
    telemetryTimer,    \* part_001's telemetry timer: 0 none, 1 pending, 2 registering,
                       \* 3 starting the updates
    usersCreated,      \* the SQLite table users exists
    users,             \* rows of the SQLite table users
    initRuns,          \* runs of scripts/init-users-table.ts so far
    req,               \* the request the server's API handled last
    res                \* the response it sent

vars == << page, bridgePresent, statusFormat, device, hl, logins, isLoading, error, isPilotLoggedIn,
           configResponse, djiConfig,
           connectCallback, onTelemetryChange, link, loads, failures, subs, requested,
           lostSubs, calls, runs, subTimers, reconnectTimers, testTimers, uuid, results,
           inbound, messageLogs, telemetryData, telemetry, escaped, expired,
           mounted, onMqttStatusChangeSlot, onTelemetryUpdate, handedUndefined,
           telemetryTimer, usersCreated, users, initRuns, req, res >>

serverVars == << usersCreated, users, initRuns, req, res >>
clientVars == << page, bridgePresent, statusFormat, device, hl, logins, isLoading, error,
                isPilotLoggedIn, configResponse, djiConfig, connectCallback,
                onTelemetryChange, link, loads, failures, subs, requested, lostSubs,
                calls, runs, subTimers, reconnectTimers, testTimers, uuid, results,
                inbound, messageLogs, telemetryData, telemetry, escaped, expired,
                mounted, onMqttStatusChangeSlot, onTelemetryUpdate, handedUndefined,
                telemetryTimer >>
inboundVars == << inbound, messageLogs, telemetryData, telemetry, escaped, expired >>
mountVars == << mounted, onMqttStatusChangeSlot, onTelemetryUpdate, handedUndefined >>
pageVars == << isLoading, error, isPilotLoggedIn, djiConfig >>
windowVars == << connectCallback, onTelemetryChange >>
timerVars == << runs, subTimers, reconnectTimers, testTimers, telemetryTimer >>

\* The page as it is mounted, before anything is submitted.
Mounted ==
    /\ page \in Pages
    /\ bridgePresent \in BOOLEAN
    /\ statusFormat \in StatusFormats
    /\ device = KnownDevice
    /\ hl = "idle"
    /\ logins = 0
    /\ isLoading = FALSE
    /\ error = "null"
    /\ isPilotLoggedIn = FALSE
    /\ configResponse = 0
    /\ djiConfig = "none"
    /\ connectCallback = "none"
    /\ onTelemetryChange = "mount"
    /\ link = "none"
    /\ loads = << >>
    /\ failures = 0
    /\ subs = {}
    /\ requested = << >>
    /\ lostSubs = {}
    /\ calls = {}
    /\ runs = << >>
    /\ subTimers = << >>
    /\ reconnectTimers = 0
    /\ testTimers = 0
    /\ uuid = 0
    /\ results = {}
    /\ inbound = << >>
    /\ messageLogs = << >>
    /\ telemetryData = Nothing
    /\ telemetry = {}
    /\ escaped = FALSE
    /\ expired = {}
    /\ mounted = TRUE
    /\ onMqttStatusChangeSlot = "mount"
    /\ onTelemetryUpdate = "none"
    /\ handedUndefined = {}
    /\ telemetryTimer = 0

\* ------------------------------------------------- the server's tables
\* bcrypt's hash of a password: the salt is random, taken as fresh per hash.
hash(plain, salt) == [of |-> plain, salt |-> salt]

\* A verification that accepts every password.
anyPassword(plainPassword, hashedPassword) == TRUE

\* bcrypt's compare.
verifyPassword(plainPassword, hashedPassword) == hashedPassword.of = plainPassword

\* The row scripts/init-users-table.ts inserts, with the hash its run computed.
adminRow(salt) ==
    [id |-> "1", username |-> "admin", password |-> hash("admin123", salt),
     workspace_id |-> "ws_001", workspace_name |-> "Main Workspace", role |-> "admin"]

\* No request handled yet, and no response sent.
NoRequest ==
    [endpoint |-> "none", method |-> "", username |-> "", password |-> "", token |-> "",
     handler |-> ""]
NoResponse ==
    [endpoint |-> "none", status |-> 0, error |-> "", user |-> {}, token |-> {},
     credentials |-> FALSE, invoked |-> 0, reqUser |-> {}]

\* The database as the script left it, the API idle.
serverIdle ==
    /\ usersCreated = TRUE
    /\ users = {adminRow(1)}
    /\ initRuns = 1
    /\ req = NoRequest
    /\ res = NoResponse

\* --------------------------------------------------- the API handlers
Request(endpoint, method, username, password, token, handler) ==
    [endpoint |-> endpoint, method |-> method, username |-> username,
     password |-> password, token |-> token, handler |-> handler]

\* res.status(status).json({ error: message }).
Respond(endpoint, status, message) ==
    [NoResponse EXCEPT !.endpoint = endpoint, !.status = status, !.error = message]

\* user-db.ts: the user of that name without the password column, and the
\* stored hash; null (the empty set) when no row has the name.
getUserByUsername(username) ==
    {[user |-> [id |-> r.id, username |-> r.username, workspaceId |-> r.workspace_id,
                workspaceName |-> r.workspace_name, role |-> r.role],
      hashedPassword |-> r.password] : r \in {x \in users : x.username = username}}

\* jsonwebtoken's sign: the payload under the secret, valid for eight hours.
sign(user) ==
    [userId |-> user.id, username |-> user.username, role |-> user.role,
     workspaceId |-> user.workspaceId, expiresIn |-> "8h"]

\* A reply to an unknown user that differs from the reply to a wrong password.
userNotFound == Respond("login", 404, "User not found")

\* The reply when no row has the username.
unknownUser == Respond("login", 401, "Invalid credentials")

\* part_003's /api/auth/login handler.  An absent or empty username or
\* password is falsy; a query on a database without the table users throws.
loginHandler(r) ==
    IF r.method # "POST" THEN Respond("login", 405, "Method not allowed")
    ELSE IF r.username = "" \/ r.password = ""
    THEN Respond("login", 400, "Username and password are required")
    ELSE IF ~usersCreated THEN Respond("login", 500, "Internal server error")
    ELSE IF getUserByUsername(r.username) = {} THEN unknownUser
    ELSE LET userRecord == CHOOSE x \in getUserByUsername(r.username) : TRUE
         IN  IF ~verifyPassword(r.password, userRecord.hashedPassword)
             THEN Respond("login", 401, "Invalid credentials")
             ELSE [Respond("login", 200, "") EXCEPT !.user = {userRecord.user},
                                                    !.token = {sign(userRecord.user)}]

\* /api/dji/config as config.ts and as part_004 have it: the request is not
\* looked at; config.ts throws when DJI_SERVER_BASE_URL is not set; the
\* configuration sent holds mqttUsername and mqttPassword.
configHandler(version, baseUrl) ==
    IF version = "config.ts" /\ ~baseUrl
    THEN Respond("config", 500, "Server base URL is not configured")
    ELSE [Respond("config", 200, "") EXCEPT !.credentials = TRUE]

\* jsonwebtoken's verify: the decoded payload, or it throws.
verify(token) == token = "valid"

\* authMiddleware(handler)(req, res).  token is the authorization header
\* without 'Bearer '.  handler(req, res) is returned from inside the try
\* without await: a handler that throws is caught there, the rejection of an
\* async handler is not and no response is sent by the wrapper.
authMiddleware(r) ==
    IF r.token = "" THEN Respond("guarded", 401, "No token provided")
    ELSE IF ~verify(r.token) THEN Respond("guarded", 401, "Invalid token")
    ELSE LET invoked == [NoResponse EXCEPT !.endpoint = "guarded", !.invoked = 1,
                                           !.reqUser = {r.token}]
         IN  IF r.handler = "throws"
             THEN [invoked EXCEPT !.status = 401, !.error = "Invalid token"]
             ELSE IF r.handler = "rejects" THEN invoked
             ELSE [invoked EXCEPT !.status = 200]

Tokens == {"", "forged", "valid"}
LoginRequests ==
    {Request("login", m, u, p, "", "") :
        m \in {"GET", "POST"}, u \in {"", "admin", "guest"},
        p \in {"", "admin123", "letmein"}}
ConfigRequests == {Request("config", "GET", "", "", t, "") : t \in Tokens}
GuardedRequests ==
    {Request("guarded", "GET", "", "", t, h) :
        t \in Tokens, h \in {"returns", "throws", "rejects"}}

Init == Mounted /\ serverIdle

\* ------------------------------------------------------------ helpers
RemoveAt(s, i) == [k \in 1..(Len(s) - 1) |-> IF k < i THEN s[k] ELSE s[k + 1]]

\* One call handed to the bridge by a timer or a status handler: a publish,
\* a subscribe, or a device module load.
BridgeCall(kind, via, topic, cmd, tid, bid) ==
    [kind |-> kind, via |-> via, topic |-> topic, cmd |-> cmd, tid |-> tid, bid |-> bid]

\* A module load with connection parameters (host, credentials, callback
\* names, a clientId of its own, clean: true).
\* The connection parameters are a string built with clientId
\* `dji_pilot_${Date.now()}`; params tells the strings apart.  result is what
\* the load call came to: "pending", "ok", "nok" (an error result) or "throw".
ConnectLoad(module, by, params) ==
    [module |-> module, by |-> by, params |-> params, result |-> "pending"]

\* A string of connection parameters built now.
newParams == Len(loads) + 1

\* The load the setup made last, and the loads with its call returned.
setupLoad == CHOOSE i \in 1..Len(loads) :
                 /\ loads[i].by = "setup"
                 /\ \A j \in (i + 1)..Len(loads) : loads[j].by # "setup"

loadReturned(r) == [loads EXCEPT ![setupLoad].result = r]

\* The catch around the 'thing' load runs for every load that did not
\* answer with code 0.
catchesErrorResult(r) == r # "ok"

\* dji-login.tsx: the catch around the 'thing' load runs when the call threw.
thingLoadCaught(r) == r = "throw"

\* The broker holds a subscription only on a connection that is up.
subscribed(topic) == IF link = "up" THEN subs \cup {topic} ELSE subs

\* One more subscribe request for a pattern reaches the bridge.
request(topic) ==
    IF topic \in DOMAIN requested
    THEN [requested EXCEPT ![topic] = 2]
    ELSE requested @@ (topic :> 1)

\* window[name] is a function.
defined(name) ==
    CASE name = "connectCallback" -> connectCallback # "none"
      [] name = "onTelemetryChange" -> onTelemetryChange # "none"
      [] name = "onMqttStatusChange" -> onMqttStatusChangeSlot # "none"
      [] OTHER -> onTelemetryUpdate # "none"

\* A bridge call takes callback names, of which the caller has just assigned
\* some.
hand(names, assigned) ==
    handedUndefined' = handedUndefined \cup {n \in names \ assigned : ~defined(n)}

\* ----------------------------------------------------- handleLogin
\* The form's inputs and button are disabled while isLoading.
handleLogin ==
    /\ mounted
    /\ hl = "idle"
    /\ ~isLoading
    /\ logins < MaxLogins
    /\ logins' = logins + 1
    /\ isLoading' = TRUE
    /\ error' = "null"
    /\ hl' = "auth"
    /\ configResponse' = 0
    /\ UNCHANGED djiConfig
    /\ UNCHANGED << inboundVars, mountVars, results, serverVars, page, bridgePresent,
                    statusFormat, device, isPilotLoggedIn, windowVars, link, loads,
                    failures, subs, requested, lostSubs, calls, timerVars, uuid >>

\* fetch('/api/auth/login') answers.
\* The page posts username and password as JSON.
PageLogins ==
    {Request("login", "POST", u, p, "", "") :
        u \in {"admin", "guest"}, p \in {"", "admin123", "letmein"}}

\* The test of authResponse.ok left out.
anyAuthOk(r) == TRUE

\* authResponse.ok.
authOk(r) == r.status \in 200..299

\* fetch('/api/auth/login') returns: the server has handled the request q.
\* A response that is not ok throws its error member, else 'Login failed',
\* to the outer catch, and the finally clause ends the attempt.
AuthReturn(q) ==
    /\ hl = "auth"
    /\ req' = q
    /\ res' = loginHandler(q)
    /\ IF authOk(res')
       THEN /\ hl' = "config"
            /\ UNCHANGED << isLoading, error >>
       ELSE /\ hl' = "idle"
            /\ error' = IF res'.error # "" THEN res'.error ELSE "Login failed"
            /\ isLoading' = FALSE
    /\ UNCHANGED djiConfig
    /\ UNCHANGED << inboundVars, mountVars, configResponse, results, usersCreated, users,
                    initRuns, page, bridgePresent, statusFormat, device, logins,
                    isPilotLoggedIn, windowVars, link, loads, failures, subs, requested,
                    lostSubs, calls, timerVars, uuid >>

\* fetch('/api/dji/config') answers with an error status, with a complete
\* configuration, or with status 200 and a body in which the values read from
\* unset environment variables are absent (JSON drops undefined members).
ConfigResponses == {"error", "complete", "incomplete"}

\* The status code of a response, and configResponse.ok.
statusOf(r) == IF r = "error" THEN 500 ELSE 200

anyStatusOk(r) == TRUE

responseOk(r) == statusOf(r) \in 200..299

\* With a configuration setupDjiConnection starts and runs up to its first
\* await; no member of the configuration is examined.
ConfigReturn(r) ==
    /\ hl = "config"
    /\ configResponse' = statusOf(r)
    /\ IF responseOk(r) /\ bridgePresent
       THEN /\ hl' = "license"
            /\ error' = "null"
            /\ djiConfig' = r
            /\ UNCHANGED << isLoading, isPilotLoggedIn >>
       ELSE /\ hl' = "idle"
            /\ error' = IF responseOk(r)
                        THEN "This page must be opened within DJI Pilot 2."
                        ELSE "DJI Setup Error"
            /\ isPilotLoggedIn' = TRUE
            /\ isLoading' = FALSE
            /\ UNCHANGED djiConfig
    /\ UNCHANGED << inboundVars, mountVars, results, serverVars, page, bridgePresent,
                    statusFormat, device, logins, windowVars, link, loads, failures,
                    subs, requested, lostSubs, calls, timerVars, uuid >>

\* The catch of setupDjiConnection, and handleLogin's code after the setup
\* returned.
setupFailed ==
    /\ hl' = "idle"
    /\ error' = IF page = PageP000b THEN "MQTT Setup Error" ELSE "Cloud Module Setup Error"
    /\ isPilotLoggedIn' = TRUE
    /\ isLoading' = FALSE
    /\ djiConfig' = "none"

\* platformVerifyLicense returns (a result JSON.parse accepts) or fails.
LicenseReturn(ok) ==
    /\ hl = "license"
    /\ IF ok
       THEN hl' = "api" /\ UNCHANGED pageVars
       ELSE setupFailed
    /\ UNCHANGED << inboundVars, mountVars, configResponse, results, serverVars, page,
                    bridgePresent, statusFormat, device, logins, windowVars, link, loads,
                    failures, subs, requested, lostSubs, calls, timerVars, uuid >>

\* platformLoadComponent('api') returns.  part_000:547-886 goes on to load
\* 'thing' with its mqttParams; the other versions query the device serials.
ApiReturn(ok) ==
    /\ hl = "api"
    /\ IF ~ok
       THEN setupFailed /\ UNCHANGED << link, loads, subs, requested, handedUndefined >>
       ELSE IF page = PageP000b
       THEN /\ hl' = "thing"
            /\ loads' = Append(loads, ConnectLoad("thing", "setup", newParams))
            /\ link' = "connecting"
            /\ subs' = {}
            /\ requested' = << >>
            /\ hand(callbackNames(page), {})
            /\ UNCHANGED pageVars
       ELSE /\ hl' = "devinfo"
            /\ UNCHANGED << pageVars, link, loads, subs, requested, handedUndefined >>
    /\ UNCHANGED << inboundVars, mounted, onMqttStatusChangeSlot, onTelemetryUpdate,
                    configResponse, results, serverVars, page, bridgePresent,
                    statusFormat, device, logins, windowVars, failures, lostSubs, calls,
                    timerVars, uuid >>

\* platformGetRemoteControllerSN and platformGetAircraftSN returned or one of
\* them failed (caught); the setup assigns window.connectCallback and
\* window.onTelemetryChange and loads 'thing' with cloudParams.
DevInfoReturn ==
    /\ hl = "devinfo"
    /\ hl' = IF page = PageP002 THEN "cloud" ELSE "thing"
    /\ IF page = PageP002
       THEN /\ onMqttStatusChangeSlot' = "setup"
            /\ UNCHANGED connectCallback
       ELSE /\ connectCallback' = "setup"
            /\ UNCHANGED onMqttStatusChangeSlot
    /\ onTelemetryChange' = "setup"
    /\ hand(callbackNames(page), callbackNames(page))
    /\ loads' = Append(loads, ConnectLoad(IF page = PageP002 THEN "cloud" ELSE "thing",
                                          "setup", newParams))
    /\ link' = "connecting"
    /\ subs' = {}
    /\ requested' = << >>
    /\ UNCHANGED << inboundVars, mounted, onTelemetryUpdate, configResponse, results,
                    serverVars, page, bridgePresent, statusFormat, device, logins,
                    pageVars, failures, lostSubs, calls, timerVars, uuid >>

\* After the module load: the subscribe timer (3000 ms), part_000:1-546's
\* test-publish timer (4000 ms), and platformSetWorkspaceId is called.
afterModuleLoad ==
    /\ hl' = "wsid"
    /\ subTimers' = IF page = PageP001 THEN subTimers ELSE Append(subTimers, 1)
    /\ testTimers' = IF page = PageP000a THEN testTimers + 1 ELSE testTimers
    /\ telemetryTimer' = IF page = PageP001 THEN 1 ELSE telemetryTimer
    /\ UNCHANGED << pageVars, runs, reconnectTimers >>

\* platformLoadComponent('thing') returns: "ok", "nok" (a result whose code
\* is not 0, or that JSON.parse rejects) or "throw".  A load that did not
\* succeed leaves no connection ("none").
ThingReturn(r) ==
    /\ hl = "thing"
    /\ r # "ok" => link = "connecting"
    /\ IF page = PageP000b
       THEN /\ CASE r = "ok" ->
                    /\ hl' = "sub"
                    /\ calls' = calls \cup
                          {BridgeCall("subscribe", "thingSubscribe", "thing/#", "", 0, 0)}
                    /\ subs' = subscribed("thing/#")
                    /\ requested' = request("thing/#")
                    /\ UNCHANGED << pageVars, link >>
                 [] r = "nok" ->
                    /\ hl' = "wsid"
                    /\ link' = "none"
                    /\ UNCHANGED << pageVars, calls, subs, requested >>
                 [] OTHER ->
                    /\ setupFailed
                    /\ link' = "none"
                    /\ UNCHANGED << calls, subs, requested >>
            /\ loads' = loadReturned(r)
            /\ UNCHANGED << timerVars, handedUndefined >>
       ELSE IF thingLoadCaught(r)
       THEN /\ hl' = "cloud"
            \* the same cloudParams string
            /\ loads' = Append(loadReturned(r),
                               ConnectLoad("cloud", "setup", loads[setupLoad].params))
            /\ link' = "connecting"
            /\ subs' = {}
            /\ requested' = << >>
            /\ hand(callbackNames(page), {})
            /\ UNCHANGED << pageVars, calls, timerVars >>
       ELSE /\ afterModuleLoad
            /\ loads' = loadReturned(r)
            /\ link' = IF r = "ok" THEN link ELSE "none"
            /\ UNCHANGED << calls, subs, requested, handedUndefined >>
    /\ UNCHANGED << inboundVars, mounted, onMqttStatusChangeSlot, onTelemetryUpdate,
                    configResponse, results, serverVars, page, bridgePresent,
                    statusFormat, device, logins, windowVars, failures, lostSubs, uuid >>

\* platformLoadComponent('cloud') returns or fails: the setup goes on; part_002
\* arms no timer here.
CloudReturn(ok) ==
    /\ hl = "cloud"
    /\ ~ok => link = "connecting"
    /\ IF page = PageP002
       THEN hl' = "wsid" /\ UNCHANGED << pageVars, timerVars >>
       ELSE afterModuleLoad
    /\ loads' = loadReturned(IF ok THEN "ok" ELSE "throw")
    /\ link' = IF ok THEN link ELSE "none"
    /\ UNCHANGED << inboundVars, mountVars, configResponse, results, serverVars, page,
                    bridgePresent, statusFormat, device, logins, windowVars, failures,
                    subs, requested, lostSubs, calls, uuid >>

\* part_000:547-886: thingSubscribe returns or fails (caught with the parse
\* errors); platformSetWorkspaceId is called.
SubscribeReturn ==
    /\ hl = "sub"
    /\ hl' = "wsid"
    /\ UNCHANGED << inboundVars, mountVars, configResponse, results, serverVars, page,
                    bridgePresent, statusFormat, device, logins, pageVars, windowVars,
                    link, loads, failures, subs, requested, lostSubs, calls, timerVars,
                    uuid >>

\* platformSetWorkspaceId returns; platformSetInformation is called.
WorkspaceIdReturn(ok) ==
    /\ hl = "wsid"
    /\ IF ok
       THEN hl' = "info" /\ UNCHANGED pageVars
       ELSE setupFailed
    /\ UNCHANGED << inboundVars, mountVars, configResponse, results, serverVars, page,
                    bridgePresent, statusFormat, device, logins, windowVars, link, loads,
                    failures, subs, requested, lostSubs, calls, timerVars, uuid >>

\* platformSetInformation returns: setIsPilotLoggedIn(true), the setup ends
\* and handleLogin finishes.
InformationReturn(ok) ==
    /\ hl = "info"
    /\ IF ok
       THEN /\ hl' = "idle"
            /\ isPilotLoggedIn' = TRUE
            /\ isLoading' = FALSE
            /\ djiConfig' = "none"
            /\ UNCHANGED error
       ELSE setupFailed
    /\ UNCHANGED << inboundVars, mountVars, configResponse, results, serverVars, page,
                    bridgePresent, statusFormat, device, logins, windowVars, link, loads,
                    failures, subs, requested, lostSubs, calls, timerVars, uuid >>

\* ------------------------------------------------- generateUUID
\* A generator that returns the same identifier every time.
constantUUID(n) == 1

\* The n+1st UUID generated: 122 random bits, taken as fresh.
generateUUID(n) == n + 1

\* --------------------------------- the run a connect callback schedules
\* The bridge calls of the function connectCallback hands to setTimeout, in
\* order; every call is awaited inside its own try/catch.
runSteps(p) ==
    CASE p = PageTsx -> 5
      [] p = PageP000a -> 7
      [] p = PageP003 -> 12
      [] OTHER -> 0

\* The steps that build a command envelope (tid, bid) before their call.
buildsEnvelope(p, k) ==
    CASE p = PageTsx -> k \in {3, 4}
      [] p = PageP000a -> k \in {1, 5, 6, 7}
      [] p = PageP003 -> k \in {1, 5, 9}
      [] OTHER -> FALSE

publishMethods(p) ==
    CASE p = PageP000a -> << "thing.publish", "thing.cmd.send", "cloud.publish", "mqtt.publish" >>
      [] p = PageP003 -> << "thing.property.post", "thing.publish", "thing.post",
                            "thing.event.post" >>
      [] OTHER -> << >>

\* part_003: the serial of the topics: the aircraft's, else the remote
\* controller's, else a fixed one; the three topics.
topicSerial ==
    IF device.aircraft # "" THEN device.aircraft
    ELSE IF device.rc # "" THEN device.rc
    ELSE gatewaySn

publishTopics == << "thing/product/" \o topicSerial \o "/property",
                    "thing/product/" \o topicSerial \o "/state",
                    "sys/product/" \o topicSerial \o "/status" >>

\* Step k of the run, carrying the envelope (tid, bid).
runCall(p, k, tid, bid) ==
    CASE p = PageTsx ->
            CASE k = 1 -> BridgeCall("device", "thing.device.bind", "", "", 0, 0)
              [] k = 2 -> BridgeCall("device", "thing.device.activate", "", "", 0, 0)
              [] k = 3 -> BridgeCall("publish", "thing.cmd.send",
                                     "thing/product/" \o gatewaySn \o "/cmd",
                                     "osd.config", tid, bid)
              [] k = 4 -> BridgeCall("publish", "thing.cmd.send",
                                     "thing/product/" \o gatewaySn \o "/cmd", "osd.get", tid, bid)
              [] OTHER -> BridgeCall("device", "thing.live.enable", "", "", 0, 0)
      [] p = PageP000a ->
            CASE k \in 1..4 -> BridgeCall("publish", publishMethods(p)[k],
                                          "sys/product/" \o gatewaySn \o "/cmd",
                                          "osd.config", tid, bid)
              [] k = 5 -> BridgeCall("publish", "thing.cmd.send",
                                     "sys/product/" \o gatewaySn \o "/cmd", "thing.command.invoke",
                                     tid, bid)
              [] k = 6 -> BridgeCall("publish", "thing.cmd.send",
                                     "sys/product/" \o gatewaySn \o "/cmd", "thing.property.get",
                                     tid, bid)
              [] OTHER -> BridgeCall("publish", "thing.cmd.send",
                                     "sys/product/" \o gatewaySn \o "/cmd", "thing.service.invoke",
                                     tid, bid)
      [] OTHER ->
            BridgeCall("publish", publishMethods(p)[((k - 1) % 4) + 1],
                       publishTopics[((k - 1) \div 4) + 1], "custom_test", tid, bid)

\* One shared try around all the calls: a call that throws ends the run.
abortOnThrow(k, ok) == IF ok THEN k + 1 ELSE k + 100

\* The step after call k: every call sits in a try/catch of its own whose
\* catch only logs, so the next call follows whether call k returned (ok) or
\* threw.
afterCall(k, ok) == k + 1

\* A run takes its next step: the previous call has returned (ok) or thrown,
\* its result or its error is logged, the waits between attempts are over,
\* the next call is made.  After the last call's result the run is over.
RunStep(i, ok) ==
    /\ i \in 1..Len(runs)
    /\ LET k == IF runs[i].pc = 0 THEN 1 ELSE afterCall(runs[i].pc, ok)
           fresh == buildsEnvelope(page, k)
           \* part_003 generates bid first, the other versions tid first
           first == generateUUID(uuid)
           second == generateUUID(uuid + 1)
           tid == IF ~fresh THEN runs[i].tid ELSE IF page = PageP003 THEN second ELSE first
           bid == IF ~fresh THEN runs[i].bid ELSE IF page = PageP003 THEN first ELSE second
           returned == IF runs[i].pc >= 1
                       THEN runCall(page, runs[i].pc, runs[i].tid, runs[i].bid)
                       ELSE BridgeCall("none", "", "", "", 0, 0)
       IN  /\ results' = IF returned.kind = "publish"
                         THEN results \cup {[tid |-> returned.tid, cmd |-> returned.cmd,
                                             data |-> "bridge result"]}
                         ELSE results
           /\ calls' = IF k <= runSteps(page) THEN calls \cup {runCall(page, k, tid, bid)}
                       ELSE calls
           /\ uuid' = IF fresh THEN uuid + 2 ELSE uuid
           /\ runs' = IF k > runSteps(page) THEN RemoveAt(runs, i)
                      ELSE [runs EXCEPT ![i] = [pc |-> k, tid |-> tid, bid |-> bid,
                                                caught |-> runs[i].pc >= 1 /\ ~ok]]
    /\ UNCHANGED << inboundVars, mountVars, configResponse, serverVars, page,
                    bridgePresent, statusFormat, device, hl, logins, pageVars,
                    windowVars, link, loads, failures, subs, requested, lostSubs,
                    subTimers, reconnectTimers, testTimers, telemetryTimer >>

\* The subscribe timer's loop subscribes its next topic.
SubscribeStep(i) ==
    /\ i \in 1..Len(subTimers)
    /\ LET k == subTimers[i]
           topic == subscribeTopics(page)[k]
       IN  /\ calls' = IF page = PageP002
                       \* part_002: subscribe, wait 1000 ms, publish the test message
                       THEN calls \cup {BridgeCall("subscribe", "cloud.subscribe", topic, "",
                                                   0, 0),
                                        BridgeCall("publish", "cloud.publish", "test/topic",
                                                   "test", 0, 0)}
                       ELSE calls \cup {BridgeCall("subscribe", "thing.subscribe", topic,
                                                   "", 0, 0)}
           /\ subs' = subscribed(topic)
           /\ requested' = request(topic)
           /\ subTimers' = IF k = Len(subscribeTopics(page)) THEN RemoveAt(subTimers, i)
                           ELSE [subTimers EXCEPT ![i] = k + 1]
    /\ UNCHANGED << inboundVars, mountVars, configResponse, results, serverVars, page,
                    bridgePresent, statusFormat, device, hl, logins, pageVars,
                    windowVars, link, loads, failures, lostSubs, runs, reconnectTimers,
                    testTimers, telemetryTimer, uuid >>

\* part_000:1-546: the test-publish timer fires.
TestPublish ==
    /\ testTimers > 0
    /\ testTimers' = testTimers - 1
    /\ UNCHANGED telemetryTimer
    /\ calls' = calls \cup {BridgeCall("publish", "thing.publish", "test/message", "", 0, 0)}
    /\ UNCHANGED << inboundVars, mountVars, configResponse, results, serverVars, page,
                    bridgePresent, statusFormat, device, hl, logins, pageVars,
                    windowVars, link, loads, failures, subs, requested, lostSubs, runs,
                    subTimers, reconnectTimers, uuid >>

\* part_003: a reconnect timer fires and loads 'thing' again, with a new
\* clientId.
Reconnect ==
    /\ reconnectTimers > 0
    /\ reconnectTimers' = reconnectTimers - 1
    /\ loads' = Append(loads, ConnectLoad("thing", "reconnect", newParams))
    /\ link' = "connecting"
    /\ subs' = {}
    /\ requested' = << >>
    /\ hand(callbackNames(page), {})
    /\ UNCHANGED << inboundVars, mounted, onMqttStatusChangeSlot, onTelemetryUpdate,
                    configResponse, results, serverVars, page, bridgePresent,
                    statusFormat, device, hl, logins, pageVars, windowVars, failures,
                    lostSubs, calls, runs, subTimers, testTimers, telemetryTimer, uuid >>

\* ------------------------------------------------ the message callback
\* The bridge hands a message to window.onTelemetryChange.
\* Both the mount effect's handler and the setup's run, as listeners added to
\* an event would.
everyHandler(slot, p, message, at) ==
    IF slot = "mount" THEN onTelemetryChangeMount(p, message, at)
    ELSE [raised |-> FALSE,
          logs |-> onTelemetryChangeMount(p, message, at).logs
                      \o onTelemetryChangeSetup(message, at).logs]

\* The bridge calls window.onTelemetryChange: the function that was assigned
\* last.  part_001 assigns the same function as dji-login.tsx, part_002 the
\* same as part_003.
installedHandler(slot, p, message, at) ==
    IF slot = "mount" THEN onTelemetryChangeMount(p, message, at)
    ELSE IF p \in {PageP003, PageP002} THEN onTelemetryChangeP003(message, at)
    ELSE onTelemetryChangeSetup(message, at)

\* The log as a callback would set it from the debugLogs of the render that
\* created the callback (the empty list), not from the latest state.
addLogStale(prev, entries) == entries

\* addLog: setDebugLogs(prev => [...prev, entry]) for each entry in turn.
addLog(prev, entries) == prev \o entries

Deliver(message) ==
    /\ link = "up"
    /\ onTelemetryChange # "none"
    /\ Len(inbound) < MaxMessages
    /\ LET at == Len(inbound) + 1
           r == installedHandler(onTelemetryChange, page, message, at)
       IN  /\ inbound' = Append(inbound, message)
           /\ messageLogs' = addLog(messageLogs, r.logs)
           /\ escaped' = (escaped \/ r.raised)
           \* part_000:547-886: setTelemetryData(data)
           /\ telemetryData' = IF page = PageP000b /\ ~JSONparse(message).threw
                                THEN JSONparse(message).v
                                ELSE telemetryData
    /\ UNCHANGED << mountVars, configResponse, telemetry, expired, results, serverVars,
                    page, bridgePresent, statusFormat, device, hl, logins, pageVars,
                    windowVars, link, loads, failures, subs, requested, lostSubs, calls,
                    runs, subTimers, reconnectTimers, testTimers, telemetryTimer, uuid >>

\* The messages of a reply to a command that went out.
replyTexts == {ReplyText(c.cmd, c.tid) : c \in {d \in calls : d.kind = "publish" /\ d.tid # 0}}

\* The publish call of command tid has returned and the time a reply may
\* take passes without one.  The runs arm no timer for a reply: nothing
\* happens in the page.
TimeoutElapse(tid) ==
    /\ tid \in {r.tid : r \in results} \ expired
    /\ \A i \in 1..Len(inbound) : inbound[i].tid # tid
    /\ expired' = expired \cup {tid}
    /\ UNCHANGED << mountVars, configResponse, inbound, messageLogs, telemetryData,
                    telemetry, escaped, results, serverVars, page, bridgePresent,
                    statusFormat, device, hl, logins, pageVars, windowVars, link, loads,
                    failures, subs, requested, lostSubs, calls, runs, subTimers,
                    reconnectTimers, testTimers, telemetryTimer, uuid >>

\* ---------------------------------------- part_001's telemetry timer
\* The timer (4000 ms) registers the callback name 'onTelemetryUpdate' with
\* the bridge, then assigns window.onTelemetryUpdate, then asks the bridge to
\* start the updates; each call's result or failure is logged.
TelemetryStep ==
    /\ telemetryTimer > 0
    /\ CASE telemetryTimer = 1 ->
              /\ telemetryTimer' = 2
              /\ calls' = calls \cup
                    {BridgeCall("telemetry", "platformRegisterTelemetryCallback",
                                "onTelemetryUpdate", "", 0, 0)}
              /\ hand({"onTelemetryUpdate"}, {})
              /\ UNCHANGED onTelemetryUpdate
         [] telemetryTimer = 2 ->
              /\ telemetryTimer' = 3
              /\ onTelemetryUpdate' = "setup"
              /\ calls' = calls \cup
                    {BridgeCall("telemetry", "platformStartTelemetryUpdates", "", "", 0, 0)}
              /\ UNCHANGED handedUndefined
         [] OTHER ->
              /\ telemetryTimer' = 0
              /\ UNCHANGED << calls, onTelemetryUpdate, handedUndefined >>
    /\ UNCHANGED << inboundVars, mounted, onMqttStatusChangeSlot, configResponse,
                    results, serverVars, page, bridgePresent, statusFormat, device, hl,
                    logins, pageVars, windowVars, link, loads, failures, subs, requested,
                    lostSubs, runs, subTimers, reconnectTimers, testTimers, uuid >>

\* ------------------------------------------------------- the cleanup
\* The component unmounts: the mount effect's cleanup deletes
\* window.onMqttStatusChange and window.onTelemetryChange.  It deletes no
\* other callback, clears no timer and makes no bridge call.
cleanup ==
    /\ mounted
    /\ mounted' = FALSE
    /\ onMqttStatusChangeSlot' = "none"
    /\ UNCHANGED << onTelemetryUpdate, handedUndefined >>
    /\ onTelemetryChange' = "none"
    /\ UNCHANGED << inboundVars, configResponse, results, serverVars, page,
                    bridgePresent, statusFormat, device, hl, logins, pageVars,
                    connectCallback, link, loads, failures, subs, requested, lostSubs,
                    calls, timerVars, uuid >>

\* ----------------------------------------------- the status callbacks
scheduleRun ==
    /\ Len(runs) < MaxRuns
    /\ runs' = Append(runs, [pc |-> 0, tid |-> 0, bid |-> 0, caught |-> FALSE])
    /\ UNCHANGED << subTimers, reconnectTimers, testTimers, telemetryTimer >>

\* window.connectCallback(status) of the version the page runs.
connectCallbackBody(status) ==
    /\ connectCallback = "setup"
    /\ IF page = PageP003 /\ ~isConnected(status)
       THEN /\ reconnectTimers' = reconnectTimers + 1
            /\ UNCHANGED << runs, subTimers, testTimers, telemetryTimer >>
       ELSE scheduleRun
    /\ UNCHANGED << error, calls >>

\* part_000:547-886: window.onMqttStatusChange(statusStr), installed at
\* mount.
onMqttStatusChange(status) ==
    LET branch == mqttStatusBranch(status)
    IN  /\ calls' = IF branch = "connected"
                    THEN calls \cup {BridgeCall("subscribe", "thingSubscribe", "thing/#",
                                                "", 0, 0)}
                    ELSE calls
        /\ error' = CASE branch = "disconnected" -> "MQTT Disconnected"
                      [] branch = "error" -> "MQTT Error"
                      [] branch = "parsefail" -> "Failed to parse MQTT status"
                      [] OTHER -> error
        /\ UNCHANGED timerVars

\* The bridge reports that the broker acknowledged the connection.
\* part_002: the handler in window.onMqttStatusChange.  The setup's handler
\* arms a timer (3000 ms) on a connected status; the mount effect's handler
\* publishes at once.
onMqttStatusChangeP002(status) ==
    LET connected == mqttStatusBranch(status) = "connected"
    IN  /\ subTimers' = IF onMqttStatusChangeSlot = "setup" /\ connected
                        THEN Append(subTimers, 1)
                        ELSE subTimers
        /\ calls' = IF onMqttStatusChangeSlot = "mount" /\ connected
                    THEN calls \cup {BridgeCall("publish", "cloud.publish", "test",
                                                "Connection confirmed test", 0, 0)}
                    ELSE calls
        /\ UNCHANGED << error, runs, reconnectTimers, testTimers, telemetryTimer >>

BridgeConnected(status) ==
    /\ formatOf(status) = statusFormat
    /\ link = "connecting"
    /\ link' = "up"
    /\ IF page = PageP000b
       THEN IF onMqttStatusChangeSlot = "none"
            THEN UNCHANGED << error, calls, timerVars, subs, requested >>
            ELSE /\ onMqttStatusChange(status)
                 /\ subs' = IF mqttStatusBranch(status) = "connected"
                            THEN subs \cup {"thing/#"}
                            ELSE subs
                 /\ requested' = IF mqttStatusBranch(status) = "connected"
                                 THEN request("thing/#")
                                 ELSE requested
       ELSE IF page = PageP002
       THEN /\ onMqttStatusChangeP002(status)
            /\ UNCHANGED << subs, requested >>
       ELSE /\ connectCallbackBody(status)
            /\ UNCHANGED << subs, requested >>
    /\ UNCHANGED << inboundVars, mountVars, configResponse, results, serverVars, page,
                    bridgePresent, statusFormat, device, hl, logins, isLoading,
                    isPilotLoggedIn, djiConfig, windowVars, loads, failures, lostSubs,
                    uuid >>

\* The bridge reports a failed connect or a lost connection; the session
\* was opened with clean: true, so the broker forgets its subscriptions.
BridgeLostWithin(n, status) ==
    /\ formatOf(status) = statusFormat
    /\ link \in {"connecting", "up"}
    /\ failures < n
    /\ failures' = failures + 1
    /\ link' = "down"
    /\ lostSubs' = lostSubs \cup subs
    /\ subs' = {}
    /\ requested' = << >>
    /\ IF page = PageP000b
       THEN IF onMqttStatusChangeSlot = "none"
            THEN UNCHANGED << error, calls, timerVars >>
            ELSE onMqttStatusChange(status)
       ELSE IF page = PageP002
       THEN onMqttStatusChangeP002(status)
       ELSE connectCallbackBody(status)
    /\ UNCHANGED << inboundVars, mountVars, configResponse, results, serverVars, page,
                    bridgePresent, statusFormat, device, hl, logins, isLoading,
                    isPilotLoggedIn, djiConfig, windowVars, loads, uuid >>

BridgeLost(status) == BridgeLostWithin(MaxFailures, status)
BridgeDrop(status) == BridgeLostWithin(MaxDrops, status)

\* part_000:547-886 hands reconnectPeriod: 1000 to the bridge, whose client
\* connects again by itself after a connection it reported lost.
BridgeReconnect ==
    /\ page = PageP000b
    /\ link = "down"
    /\ link' = "connecting"
    /\ UNCHANGED << inboundVars, mountVars, configResponse, results, serverVars, page,
                    bridgePresent, statusFormat, device, hl, logins, pageVars,
                    windowVars, loads, failures, subs, requested, lostSubs, calls,
                    timerVars, uuid >>

\* The login, the setup and the connection's life: what the page does up to
\* its timers, and what the bridge reports.
Next ==
    \/ handleLogin
    \/ \E q \in PageLogins : AuthReturn(q)
    \/ \E r \in ConfigResponses : ConfigReturn(r)
    \/ \E ok \in BOOLEAN : LicenseReturn(ok)
    \/ \E ok \in BOOLEAN : ApiReturn(ok)
    \/ DevInfoReturn
    \/ \E r \in {"ok", "nok", "throw"} : ThingReturn(r)
    \/ \E ok \in BOOLEAN : CloudReturn(ok)
    \/ SubscribeReturn
    \/ \E ok \in BOOLEAN : WorkspaceIdReturn(ok)
    \/ \E ok \in BOOLEAN : InformationReturn(ok)
    \/ \E s \in ConnectedPayloads : BridgeConnected(s)
    \/ \E s \in LostPayloads : BridgeLost(s)
    \/ BridgeReconnect
    \/ Reconnect

Spec == Init /\ [][Next]_vars

\* The logins alone: handleLogin and setupDjiConnection with every outcome of
\* their requests and bridge calls, and the connected notifications.
NextLogin ==
    \/ handleLogin
    \/ \E q \in PageLogins : AuthReturn(q)
    \/ \E r \in ConfigResponses : ConfigReturn(r)
    \/ \E ok \in BOOLEAN : LicenseReturn(ok)
    \/ \E ok \in BOOLEAN : ApiReturn(ok)
    \/ DevInfoReturn
    \/ \E r \in {"ok", "nok", "throw"} : ThingReturn(r)
    \/ \E ok \in BOOLEAN : CloudReturn(ok)
    \/ SubscribeReturn
    \/ \E ok \in BOOLEAN : WorkspaceIdReturn(ok)
    \/ \E ok \in BOOLEAN : InformationReturn(ok)
    \/ \E s \in ConnectedPayloads : BridgeConnected(s)

SpecLogin == Init /\ [][NextLogin]_vars

\* A first login went through and the setup completed: the callbacks are
\* installed, the 'thing' module is loaded, the timers are pending and the
\* bridge has reported nothing yet.
SetupDoneWith(devices) ==
    /\ page \in Pages
    /\ bridgePresent = TRUE
    /\ statusFormat \in StatusFormats
    /\ device \in devices
    /\ hl = "idle"
    /\ logins = 1
    /\ isLoading = FALSE
    /\ error = "null"
    /\ isPilotLoggedIn = TRUE
    /\ configResponse = 200
    /\ djiConfig = "none"
    /\ connectCallback = (IF page \in CallbackPages THEN "setup" ELSE "none")
    /\ onTelemetryChange = (IF page \in CallbackPages THEN "setup" ELSE "mount")
    /\ link = "connecting"
    /\ loads = << [module |-> "thing", by |-> "setup", params |-> 1, result |-> "ok"] >>
    /\ failures = 0
    /\ subs = {}
    /\ requested = (IF page = PageP000b THEN "thing/#" :> 1 ELSE << >>)
    /\ lostSubs = {}
    /\ calls = (IF page = PageP000b
                THEN {BridgeCall("subscribe", "thingSubscribe", "thing/#", "", 0, 0)}
                ELSE {})
    /\ runs = << >>
    /\ subTimers = (IF page \in CallbackPages THEN << 1 >> ELSE << >>)
    /\ reconnectTimers = 0
    /\ testTimers = (IF page = PageP000a THEN 1 ELSE 0)
    /\ uuid = 0
    /\ results = {}
    /\ inbound = << >>
    /\ messageLogs = << >>
    /\ telemetryData = Nothing
    /\ telemetry = {}
    /\ escaped = FALSE
    /\ expired = {}
    /\ mounted = TRUE
    /\ onMqttStatusChangeSlot = "mount"
    /\ onTelemetryUpdate = "none"
    /\ handedUndefined = {}
    /\ telemetryTimer = 0
    /\ serverIdle

SetupDone == SetupDoneWith({KnownDevice})

\* After the setup: the bridge's reports, the callbacks and the timers.  A call
\* that throws differs from one that returns only in the run's caught flag,
\* which nothing here reads: the calls of the runs return.
NextTimers ==
    \/ \E s \in ConnectedPayloads : BridgeConnected(s)
    \/ \E s \in LostPayloads : BridgeDrop(s)
    \/ BridgeReconnect
    \/ Reconnect
    \/ \E i \in 1..MaxRuns : RunStep(i, TRUE)
    \/ \E i \in 1..MaxLogins : SubscribeStep(i)
    \/ TestPublish

SpecTimers == SetupDone /\ [][NextTimers]_vars

\* The messages the bridge can hand over.
Messages ==
    {GarbageText, NullText, ScalarText, Quoted(TopoText("1581F5BK")),
     ObjectText("", 0, 0, "", ""), OsdText(1), OsdText(2), TopoText("1581F5BK"),
     TopoText("")}

\* After the setup: the connection comes up, the runs publish their commands
\* and the bridge delivers messages.
NextInbound ==
    \/ \E s \in ConnectedPayloads : BridgeConnected(s)
    \/ \E i \in 1..MaxRuns : RunStep(i, TRUE)
    \/ \E m \in Messages \cup replyTexts : Deliver(m)
    \/ \E t \in 1..uuid : TimeoutElapse(t)

SpecInbound == SetupDone /\ [][NextInbound]_vars

\* After the setup: the page is left while the connection and the timers of
\* the session are alive.
NextClose ==
    \/ cleanup
    \/ \E s \in ConnectedPayloads : BridgeConnected(s)
    \/ \E s \in LostPayloads : BridgeDrop(s)
    \/ BridgeReconnect
    \/ Reconnect
    \/ \E i \in 1..MaxRuns : RunStep(i, TRUE)
    \/ \E i \in 1..MaxLogins : SubscribeStep(i)
    \/ TestPublish

SpecClose == SetupDone /\ [][NextClose]_vars

\* After the setup, on any device: the runs the connect callbacks schedule.
NextSerials ==
    \/ \E s \in ConnectedPayloads : BridgeConnected(s)
    \/ \E i \in 1..MaxRuns, ok \in BOOLEAN : RunStep(i, ok)

SpecSerials == SetupDoneWith(Devices) /\ [][NextSerials]_vars

\* ------------------------------------------------ lib/db.ts: the table
\* A row of the table telemetry: timestamp is the INTEGER PRIMARY KEY,
\* received_at the server's time of the insertion.  The table has no column
\* for the device of a sample.
Row(timestamp, at) == [timestamp |-> timestamp, received_at |-> at]

\* INSERT INTO telemetry of a sample with the given timestamp: the primary
\* key admits one row per timestamp, a second one raises a constraint error
\* and leaves the table as it was; nothing else is constrained.
insert(timestamp) ==
    /\ telemetry' = IF \E r \in telemetry : r.timestamp = timestamp
                     THEN telemetry
                     ELSE telemetry \cup {Row(timestamp, Cardinality(telemetry) + 1)}
    /\ UNCHANGED << mountVars, configResponse, inbound, messageLogs, telemetryData,
                    escaped, expired, results, serverVars, page, bridgePresent,
                    statusFormat, device, hl, logins, pageVars, windowVars, link, loads,
                    failures, subs, requested, lostSubs, calls, timerVars, uuid >>

\* The table under the statements an importer of lib/db can run on it.
NextStore == \E t \in 1..MaxTimestamp : insert(t)

SpecStore == SetupDone /\ [][NextStore]_vars

\* ------------------------------------- scripts/init-users-table.ts
\* INSERT OR REPLACE: a conflicting row gives way to the new one.
insertOrReplace(rows, row) ==
    {r \in rows : r.id # row.id /\ r.username # row.username} \cup {row}

\* INSERT OR IGNORE: a row that conflicts with a stored one on the primary
\* key id or on the unique username is skipped.
insertOrIgnore(rows, row) ==
    IF \E r \in rows : r.id = row.id \/ r.username = row.username
    THEN rows
    ELSE rows \cup {row}

\* One run of the script: CREATE TABLE IF NOT EXISTS, a new hash of
\* 'admin123', INSERT OR IGNORE of the admin row.
initUsersTable ==
    /\ initRuns < MaxInits
    /\ initRuns' = initRuns + 1
    /\ usersCreated' = TRUE
    /\ users' = insertOrIgnore(users, adminRow(initRuns + 1))
    /\ UNCHANGED << clientVars, req, res >>

\* A request to /api/auth/login is handled.
Login(r) ==
    /\ req' = r
    /\ res' = loginHandler(r)
    /\ UNCHANGED << clientVars, usersCreated, users, initRuns >>

\* A request to /api/dji/config is handled.
Config(r, version, baseUrl) ==
    /\ req' = r
    /\ res' = configHandler(version, baseUrl)
    /\ UNCHANGED << clientVars, usersCreated, users, initRuns >>

\* A request to a handler wrapped in authMiddleware is handled.
Guarded(r) ==
    /\ req' = r
    /\ res' = authMiddleware(r)
    /\ UNCHANGED << clientVars, usersCreated, users, initRuns >>

\* The server: the script that initialises the users, and the API.
NextServer ==
    \/ initUsersTable
    \/ \E r \in LoginRequests : Login(r)
    \/ \E r \in ConfigRequests, version \in {"config.ts", "part_004"},
          baseUrl \in BOOLEAN : Config(r, version, baseUrl)
    \/ \E r \in GuardedRequests : Guarded(r)

\* A new database, the page of a client mounted.
ServerInit ==
    /\ Mounted
    /\ page = PageTsx
    /\ bridgePresent = TRUE
    /\ statusFormat = "boolean"
    /\ usersCreated = FALSE
    /\ users = {}
    /\ initRuns = 0
    /\ req = NoRequest
    /\ res = NoResponse

SpecServer == ServerInit /\ [][NextServer]_vars

\* After the setup: the bridge's reports of its connection and the runs the
\* connect callbacks schedule, every call of a run returning or throwing.
NextRuns ==
    \/ \E s \in ConnectedPayloads : BridgeConnected(s)
    \/ \E s \in LostPayloads : BridgeDrop(s)
    \/ BridgeReconnect
    \/ \E i \in 1..MaxRuns, ok \in BOOLEAN : RunStep(i, ok)

SpecRuns == SetupDone /\ [][NextRuns]_vars

\* The callbacks of window, in every version of the page: a login has its
\* configuration, setupDjiConnection has found the bridge, verified the
\* license and waits for the 'api' module; the page may be left meanwhile.
SetupStarted ==
    /\ page \in SlotPages
    /\ bridgePresent = TRUE
    /\ statusFormat \in StatusFormats
    /\ device = KnownDevice
    /\ hl = "api"
    /\ logins = 1
    /\ isLoading = TRUE
    /\ error = "null"
    /\ isPilotLoggedIn = FALSE
    /\ configResponse = 200
    /\ djiConfig = "complete"
    /\ connectCallback = "none"
    /\ onTelemetryChange = "mount"
    /\ link = "none"
    /\ loads = << >>
    /\ failures = 0
    /\ subs = {}
    /\ requested = << >>
    /\ lostSubs = {}
    /\ calls = {}
    /\ runs = << >>
    /\ subTimers = << >>
    /\ reconnectTimers = 0
    /\ testTimers = 0
    /\ uuid = 0
    /\ results = {}
    /\ inbound = << >>
    /\ messageLogs = << >>
    /\ telemetryData = Nothing
    /\ telemetry = {}
    /\ escaped = FALSE
    /\ expired = {}
    /\ mounted = TRUE
    /\ onMqttStatusChangeSlot = "mount"
    /\ onTelemetryUpdate = "none"
    /\ handedUndefined = {}
    /\ telemetryTimer = 0
    /\ serverIdle

SlotMessages == {GarbageText, TopoText("1581F5BK"), OsdText(1)}

NextSlots ==
    \/ \E ok \in BOOLEAN : ApiReturn(ok)
    \/ DevInfoReturn
    \/ \E r \in {"ok", "nok", "throw"} : ThingReturn(r)
    \/ \E ok \in BOOLEAN : CloudReturn(ok)
    \/ SubscribeReturn
    \/ \E ok \in BOOLEAN : WorkspaceIdReturn(ok)
    \/ \E ok \in BOOLEAN : InformationReturn(ok)
    \/ \E s \in ConnectedPayloads : BridgeConnected(s)
    \/ \E i \in 1..MaxLogins : SubscribeStep(i)
    \/ TelemetryStep
    \/ \E m \in SlotMessages : Deliver(m)
    \/ cleanup

SpecSlots == SetupStarted /\ [][NextSlots]_vars

\* ------------------------------------------------------------ claims
\* The publish calls that carry a command envelope (the test message of
\* part_000:1-546 carries none).
envelopeCalls == {c \in calls : c.kind = "publish" /\ c.tid # 0}

\* Module loads issued by part_003's reconnect timer.
reconnectAttempts == Len(SelectSeq(loads, LAMBDA l : l.by = "reconnect"))

\* C1: connecting is idempotent: no 'thing' module load with connection
\* parameters (a new clientId) is handed to the bridge while a connection is
\* being set up or is up.  (The 'cloud' fallback replaces a 'thing' load that
\* threw and is not counted.)
C1_ConnectIdempotent ==
    [][(loads' # loads /\ loads'[Len(loads')].module = "thing")
          => link \notin {"connecting", "up"}]_vars

\* C2: reconnection is bounded: however often the broker reports a failed or
\* disconnected status, no more than the 5 attempts the specification allows
\* are made before the session gives up.
C2_ReconnectBounded == reconnectAttempts <= 5

\* C3: subscriptions survive reconnection: once the connection is up again,
\* every pattern that was subscribed when a connection was lost is subscribed
\* again, with no timer of the page left to do it.
C3_SubscriptionsSurvive ==
    (link = "up" /\ subTimers = << >>) => lostSubs \subseteq subs

\* C4: publish and subscribe fail fast: a publish or subscribe call reaches
\* the bridge only when the connection is up.
C4_FailFast ==
    [][\A c \in calls' \ calls :
          c.kind \in {"publish", "subscribe"} => link' = "up"]_vars

\* C5 (as claimed): any two publish calls handed to the bridge, attempts
\* through different method names included, carry different tid values and
\* different bid values.
C5_NeverReused ==
    \A c1, c2 \in envelopeCalls : c1 # c2 => c1.tid # c2.tid /\ c1.bid # c2.bid

\* The commands that went out: what a publish call carries besides the
\* method name it was attempted through.
commandsSent == {[tid |-> c.tid, bid |-> c.bid, topic |-> c.topic, cmd |-> c.cmd] :
                    c \in envelopeCalls}

\* C5 (amended): two publish calls carry the same tid or the same bid only
\* when they are attempts of one command through different method names
\* (same topic, same command, same tid and same bid); and no tid is a bid.
C5_FreshPerCommand ==
    \A c1, c2 \in commandsSent :
        /\ c1.tid # c2.bid
        /\ (c1.tid = c2.tid \/ c1.bid = c2.bid) => c1 = c2

\* C5 witness: one command went out under two method names with one envelope,
\* and another command went out with an envelope of its own.
C5_Witness ==
    \E c1, c2, c3 \in envelopeCalls :
        /\ c1.via # c2.via /\ c1.tid = c2.tid
        /\ c3.cmd # c1.cmd \/ c3.topic # c1.topic
        /\ c3.tid # c1.tid

\* The debugLogs entries the callback added for the i-th message.
entriesFor(i) == {j \in 1..Len(messageLogs) : messageLogs[j].at = i}

\* C6: replies are correlated without cross-talk: the result a command's
\* caller is given is the data of the inbound reply that carries the
\* command's tid.
C6_RepliesCorrelated ==
    \A r \in results : \E i \in 1..Len(inbound) :
        inbound[i].tid = r.tid /\ inbound[i].data = r.data

\* C7: a command whose reply did not come within the timeout resolves to a
\* timeout error, the only outcome its caller gets.
C7_TimeoutResolves ==
    \A t \in expired :
        /\ \E r \in results : r.tid = t
        /\ \A r \in results : r.tid = t => r.data = "timeout error"

\* The payloads C8 lists: text that is not JSON, JSON null, a JSON scalar, a
\* JSON string containing JSON, an object without a method field.
unrecognizedText(m) ==
    \/ ~m.json
    \/ m.depth > 0
    \/ m.shape \in {"null", "number"}
    \/ m.shape = "object" /\ m.method = ""

\* C8: inbound decoding never raises: no exception leaves a message callback,
\* every message delivered is handled (an earlier one did not stop that),
\* and none of the listed payloads is taken for a topology update.
C8_DecodingNeverRaises ==
    /\ ~escaped
    /\ \A i \in 1..Len(inbound) :
          /\ entriesFor(i) # {}
          /\ unrecognizedText(inbound[i]) =>
                \A j \in entriesFor(i) : messageLogs[j].kind # "topology"

\* C8 witness: dji-login.tsx's callback took a JSON null, whose method it
\* cannot read, and handled the message after it.
C8_Witness ==
    /\ page = PageTsx
    /\ Len(inbound) = 2
    /\ inbound[1] = NullText
    /\ \E j \in entriesFor(1) : messageLogs[j].kind = "error"
    /\ entriesFor(2) # {}

\* A message that parses to an object whose method is update_topo.
isTopologyFrame(m) == m.json /\ m.depth = 0 /\ m.shape = "object" /\ m.method = "update_topo"

isOsdReport(m) == m.json /\ m.depth = 0 /\ m.shape = "object" /\ m.data = "osd"

\* C10: every inbound OSD report that decodes is stored: the telemetry table
\* holds a sample with the report's timestamp.
C10_OsdStored ==
    \A i \in 1..Len(inbound) : isOsdReport(inbound[i]) =>
        \E row \in telemetry : row.timestamp = inbound[i].ts

\* C11: appending to the telemetry store is an upsert keyed by timestamp:
\* for every timestamp of a report that came in, the table holds exactly one
\* sample, the one of the last report with that timestamp.
C11_UpsertLastWins ==
    \A i \in 1..Len(inbound) :
        (/\ isOsdReport(inbound[i])
         /\ \A j \in (i + 1)..Len(inbound) : inbound[j].ts # inbound[i].ts) =>
            {row \in telemetry : row.timestamp = inbound[i].ts}
               = {[timestamp |-> inbound[i].ts, sample |-> inbound[i]]}

\* C12: closing the session is one atomic teardown: once the cleanup has
\* run, no subscription is left, the connection is neither up nor being set
\* up, no callback of the session is registered, and no timer of the session
\* hands a publish, subscribe, bind or module load to the bridge.
C12_AtomicTeardown ==
    [][~mounted' =>
          /\ subs' = {}
          /\ link' \notin {"connecting", "up"}
          /\ connectCallback' = "none" /\ onTelemetryChange' = "none"
          /\ onMqttStatusChangeSlot' = "none"
          /\ mounted \/ (calls' = calls /\ loads' = loads)]_vars

\* The positions of a login at which a call of the bridge is outstanding.
BridgeSteps == {"license", "api", "devinfo", "thing", "cloud", "sub", "wsid", "info"}

\* C13: when the config endpoint answers a login with an error status, that
\* login ends at once with the error "DJI Setup Error" and hands nothing to
\* the bridge; a login is at a bridge call only after a response with an OK
\* status.
C13_EndpointErrorFailsFast ==
    [][/\ (configResponse = 0 /\ configResponse' = 500) =>
              /\ hl' = "idle"
              /\ error' = "DJI Setup Error"
              /\ isLoading' = FALSE
              /\ loads' = loads /\ calls' = calls /\ link' = link
       /\ hl' \in BridgeSteps => configResponse' = 200]_vars

\* A login that the endpoint answered with an error has ended with the error.
C13_Witness ==
    /\ configResponse = 500
    /\ hl = "idle"
    /\ error = "DJI Setup Error"

\* C13 as stated: a login is at a bridge call only when the configuration it
\* was given is complete (no credentials or other values absent).
C13_InvalidConfigFailsFast ==
    hl \in BridgeSteps => (configResponse = 200 /\ djiConfig = "complete")

\* C14: adding a subscription is idempotent: no pattern is handed to the
\* bridge in a second subscribe request for the same connection.
C14_SubscribeOnce ==
    \A topic \in DOMAIN requested : requested[topic] = 1

C16_TelemetryShown ==
    (isPilotLoggedIn /\ \E i \in 1..Len(inbound) : isOsdReport(inbound[i])) =>
        telemetryData # Nothing

\* C17: a callback name holds one handler, the one assigned last: a message
\* is handled by the function window.onTelemetryChange holds at the delivery
\* and by no other, nothing is handled when none is installed, the mount
\* effect's handlers never come back once the setup has assigned its own, and
\* the cleanup removes whichever handlers are installed.
C17_LastRegistrationWins ==
    [][/\ Len(inbound') > Len(inbound) =>
              LET at == Len(inbound')
                  m == inbound'[at]
                  h == CASE onTelemetryChange = "mount" ->
                                onTelemetryChangeMount(page, m, at)
                         [] onTelemetryChange = "setup" /\ page \in {PageP003, PageP002} ->
                                onTelemetryChangeP003(m, at)
                         [] OTHER -> onTelemetryChangeSetup(m, at)
              IN  /\ onTelemetryChange # "none"
                  /\ messageLogs' = messageLogs \o h.logs
       /\ onTelemetryChange = "setup" => onTelemetryChange' # "mount"
       /\ onMqttStatusChangeSlot = "setup" => onMqttStatusChangeSlot' # "mount"
       /\ (mounted /\ ~mounted') =>
              (onTelemetryChange' = "none" /\ onMqttStatusChangeSlot' = "none")]_vars

\* The setup's handler handled a message in its own way (the mount effect's
\* handler logs the raw text), and the cleanup then removed it.
C17_Witness ==
    /\ ~mounted
    /\ onTelemetryChange = "none"
    /\ \E j \in 1..Len(messageLogs) : messageLogs[j].kind \in {"message", "topology"}

\* C19: every callback name handed to the bridge (in the connection
\* parameters of a module load, or to platformRegisterTelemetryCallback) names
\* a window function that is defined when the call is made.  Stated for the
\* mounted page: the cleanup deletes two of the functions, and a load made
\* after it hands their names as well.
C19_NamesDefined == mounted => handedUndefined = {}

\* C18: the serial in the topic of every command published is one the
\* bridge's device queries answer with in this session.
C18_SerialsFromBridge ==
    \A c \in envelopeCalls :
        c.topic \in {pre \o sn \o suf : pre \in {"thing/product/", "sys/product/"},
                                        sn \in {device.aircraft, device.rc} \ {""},
                                        suf \in {"/cmd", "/property", "/state", "/status"}}

\* A step in which the 'cloud' module is loaded.
cloudLoaded ==
    /\ Len(loads') > Len(loads)
    /\ loads'[Len(loads')].module = "cloud"

C21_OneRunFiveCalls ==
    [][(page = PageTsx) =>
          LET order == << << "thing.device.bind", "" >>, << "thing.device.activate", "" >>,
                          << "thing.cmd.send", "osd.config" >>,
                          << "thing.cmd.send", "osd.get" >>,
                          << "thing.live.enable", "" >> >>
          IN  /\ (link' # link /\ link' \in {"up", "down"}) =>
                     /\ Len(runs') = Len(runs) + 1
                     /\ runs'[Len(runs')].pc = 0
                     /\ \A i \in 1..Len(runs) : runs'[i] = runs[i]
              /\ Len(runs') > Len(runs) => (link' # link /\ link' \in {"up", "down"})
              /\ Len(runs') < Len(runs) =>
                     \E i \in 1..Len(runs) : runs[i].pc = 5 /\ runs' = RemoveAt(runs, i)
              /\ \A i \in 1..Len(runs) :
                     (Len(runs') = Len(runs) /\ runs'[i] # runs[i]) =>
                         /\ runs'[i].pc = runs[i].pc + 1
                         /\ runs'[i].pc \in 1..5
                         /\ \E c \in calls' :
                                /\ c.via = order[runs'[i].pc][1]
                                /\ c.cmd = order[runs'[i].pc][2]
                                /\ runs'[i].pc \in {3, 4} => c.tid = runs'[i].tid]_vars

\* The run a lost connection scheduled makes its fifth call after its fourth
\* threw, every call of the five handed to the bridge.
C21_Witness ==
    /\ page = PageTsx
    /\ link = "down"
    /\ \E i \in 1..Len(runs) : runs[i].pc = 5 /\ runs[i].caught
    /\ {"thing.device.bind", "thing.device.activate", "thing.cmd.send",
        "thing.live.enable"} \subseteq {c.via : c \in calls}

\* C22: the samples stored for one device have pairwise distinct timestamps
\* in non-decreasing order of arrival: of two rows, the one inserted later
\* has the larger timestamp.
C22_TimestampsOrdered ==
    \A r1, r2 \in telemetry :
        r1.received_at < r2.received_at => r1.timestamp < r2.timestamp

\* C23: the configuration with the broker's username and password is sent
\* only in answer to a request that carries a token that verifies.
C23_ConfigRequiresAuth ==
    (res.endpoint = "config" /\ res.credentials) => verify(req.token)

\* C24: after a run of the script the table users holds exactly one row named
\* 'admin' and one row of role admin; no run changes or removes a stored row,
\* and a run on an initialised database leaves the table as it was.
C24_InitIdempotent ==
    [][/\ usersCreated' =>
              /\ Cardinality({r \in users' : r.username = "admin"}) = 1
              /\ Cardinality({r \in users' : r.role = "admin"}) = 1
       /\ users \subseteq users'
       /\ usersCreated => users' = users]_vars

\* The script has run twice and the admin's row holds the hash of the first
\* run.
C24_Witness ==
    /\ initRuns = 2
    /\ users = {adminRow(1)}

\* C25: the login handler sends a token only with status 200, for a POST whose
\* username and password are present and match a stored row; a response
\* without a token has status 405, 400, 401 or 500; no response holds the
\* stored hash.
C25_TokenOnlyForVerified ==
    res.endpoint = "login" =>
        /\ res.token # {} =>
               /\ res.status = 200
               /\ req.method = "POST"
               /\ req.username # "" /\ req.password # ""
               /\ \E row \in users :
                      row.username = req.username /\ row.password.of = req.password
        /\ res.token = {} => res.status \in {405, 400, 401, 500}
        /\ \A u \in res.user \cup res.token :
               DOMAIN u \cap {"password", "hashedPassword"} = {}

\* A login with the admin's password has been answered with a token.
C25_Witness ==
    /\ res.endpoint = "login"
    /\ req.username = "admin"
    /\ res.status = 200
    /\ res.token # {}

\* C26: a login that names an unknown user and a login that names a known
\* user with a wrong password, both with username and password present, get
\* the same response.
C26_SameFailure ==
    \A a, b \in LoginRequests :
        (/\ a.method = "POST" /\ b.method = "POST"
         /\ a.username # "" /\ a.password # "" /\ b.username # "" /\ b.password # ""
         /\ \A row \in users : row.username # a.username
         /\ \E row \in users : row.username = b.username /\ row.password.of # b.password)
        => loginHandler(a) = loginHandler(b)

\* The admin's login with a wrong password has been refused.
C26_Witness ==
    /\ res.endpoint = "login"
    /\ req.username = "admin"
    /\ req.password = "letmein"
    /\ users # {}
    /\ res.status = 401

\* C27: a 401 'Invalid token' is sent only for a token that did not verify.
C27_InvalidTokenOnlyUnverified ==
    (res.endpoint = "guarded" /\ res.error = "Invalid token") => ~verify(req.token)

C29_LoggedInOnlyAfterSetup ==
    (logins = 1 /\ hl = "idle" /\ isPilotLoggedIn) =>
        (bridgePresent /\ configResponse = 200 /\ error = "null")

\* C30: in dji-login.tsx, once a command (osd.config or osd.get) has been
\* published on a cmd topic, the subscribe request for the command replies,
\* thing/product/+/cmd_reply, has been handed to the bridge.
C30_ReplySubscribedFirst ==
    (/\ page = PageTsx
     /\ \E c \in calls : c.kind = "publish" /\ c.cmd \in {"osd.config", "osd.get"})
    => \E c \in calls : c.kind = "subscribe" /\ c.topic = "thing/product/+/cmd_reply"

\* C31: for every status the bridge can hand over in its format,
\* connectCallback takes it as connected exactly when onMqttStatusChange
\* does, that is when its code is 0 and its data.connectState is 1.
C31_HandlersAgree ==
    \A s \in ConnectedPayloads \cup LostPayloads :
        (page \in {PageTsx, PageP003} /\ formatOf(s) = statusFormat) =>
            (isConnected(s) <=> mqttStatusBranch(s) = "connected")

====
